---- MODULE Spec2Model ----
(***************************************************************************)
(* Line to Definition (src/src/extension.ts): a VS Code extension that     *)
(* draws a connector between the word under the cursor and its definition. *)
(*                                                                         *)
(* The model follows the extension host's scheduling: host notifications   *)
(* (cursor selection changes, configuration changes, responses of the      *)
(* definition provider) are tasks, the continuations of awaited promises   *)
(* are microtasks that run first-in first-out before the next task.        *)
(*                                                                         *)
(* An optional value (T | null | undefined) is the empty set or a          *)
(* singleton.                                                              *)
(***************************************************************************)
EXTENDS Integers, Sequences, FiniteSets

VARIABLES
    subscriptions,   \* context.subscriptions: the listeners activate registered
    lineHeight,      \* activate's const lineHeight (Null: calcLineHeight threw)
    settings,        \* the host's settings of section "lineToDefinition"
    config,          \* activate's let config (Null: never assigned)
    lastDecoration,  \* activate's let lastDecoration: DecorationData | null
    handlers,        \* the running onDidChangeTextEditorSelection handlers
    microtasks,      \* FIFO of handlers whose awaited promise has settled
    issued,          \* number of cursor events delivered so far
    latestAnswered,  \* the latest-issued handler whose lookup was answered
    decorationTypes, \* by id: the options of a decoration type that exists
    disposals,       \* by id: number of dispose() calls on the decoration type
    editorDecorations, \* what editor.setDecorations has put on display
    unhandledRejections, \* number of handler promises that rejected
    lastEvent,       \* history: the latest cursor event
    lastCommit,      \* history: the latest handler continuation
    probe            \* a function of the source applied on its own: the
                     \* arguments, and the result once it has been computed

vars == <<subscriptions, lineHeight, settings, config, lastDecoration,
          handlers, microtasks, issued, latestAnswered, decorationTypes,
          disposals, editorDecorations, unhandledRejections, lastEvent,
          lastCommit, probe>>

----------------------------------------------------------------------------
(* Bounds of the model *)

MaxEvents == 2

Handlers == 1..MaxEvents

----------------------------------------------------------------------------
(* Optional values *)

Null == {}
Some(x) == {x}
Get(o) == CHOOSE x \in o : TRUE

Max(a, b) == IF a >= b THEN a ELSE b
Min(a, b) == IF a <= b THEN a ELSE b

----------------------------------------------------------------------------
(* vscode.Position, vscode.Range, vscode.Uri *)

Position(l, c) == [line |-> l, character |-> c]
Range(s, e) == [start |-> s, end |-> e]
Uri(s, p) == [scheme |-> s, path |-> p]

isEqual(r1, r2) == r1.start = r2.start /\ r1.end = r2.end

----------------------------------------------------------------------------
(* The geometry helpers, extension.ts lines 59-74 *)

\* `${chars}ch`: a CSS length, the number with its unit
charsToCss(chars) == [value |-> chars, unit |-> "ch"]

\* `${lines * lineHeight}px`
linesToCss(lines, lh) == [value |-> lines * lh, unit |-> "px"]

\* centerOfRange rounding the half up (Math.ceil)
centerOfRange_RoundsUp(start, end) == start + ((end - start + 1) \div 2)

\* Math.floor((end - start) / 2): \div rounds toward minus infinity, as floor
centerOfRange(start, end) == start + ((end - start) \div 2)

\* assert(range.start.line == range.end.line)
singleLine(range) == range.start.line = range.end.line

\* defined where the assertion holds; the callers test singleLine first
centerPosFromWordRange(range) ==
    Position(range.start.line,
             centerOfRange(range.start.character, range.end.character))

\* createRangeForPositions without the Math.min and Math.max
createRangeForPositions_AsGiven(pos1, pos2) == Range(pos1, pos2)

createRangeForPositions(pos1, pos2) ==
    LET minChar == Min(pos1.character, pos2.character)
        maxChar == Max(pos1.character, pos2.character)
        minLine == Min(pos1.line, pos2.line)
        maxLine == Max(pos1.line, pos2.line)
    IN  Range(Position(minLine, minChar), Position(maxLine, maxChar))

----------------------------------------------------------------------------
(* The configuration, extension.ts lines 209-225 and package.json 24-43 *)

\* the keys package.json contributes under lineToDefinition
DeclaredKeys == {"lineColor", "lineWidth", "lineOpacity"}

\* the keys a settings file can carry: the declared ones, and "opacity",
\* which getConfig reads
SettingKeys == DeclaredKeys \cup {"opacity"}

NoSettings == [k \in SettingKeys |-> Null]

\* the user's settings: nothing set, or every declared key set
Customised ==
    [NoSettings EXCEPT !["lineColor"] = Some("blue"),
                       !["lineWidth"] = Some(2),
                       !["lineOpacity"] = Some(80)]

SettingsChoices == {NoSettings, Customised}

\* config.get(key) ?? fallback
getOr(s, key, fallback) == IF s[key] = Null THEN fallback ELSE Get(s[key])

\* getConfig returning every default when no colour is set
getConfig_DefaultsWithoutColor(s) ==
    IF s["lineColor"] = Null
    THEN [ lineColor |-> "red", lineWidth |-> 1, lineOpacity |-> 50 ]
    ELSE [ lineColor   |-> Get(s["lineColor"]),
           lineWidth   |-> getOr(s, "lineWidth", 1),
           lineOpacity |-> getOr(s, "opacity", 50) ]

getConfig(s) ==
    [ lineColor   |-> getOr(s, "lineColor", "red"),
      lineWidth   |-> getOr(s, "lineWidth", 1),
      lineOpacity |-> getOr(s, "opacity", 50) ]

----------------------------------------------------------------------------
(* calcLineHeight, extension.ts lines 201-207 *)

Platforms == {"darwin", "linux"}

\* editor.fontSize as the host reports it: undefined, or a number (5: the
\* minimum of 8 is the line height on either platform)
FontSizes == {Null, Some(0), Some(5)}

\* Math.round(ratio * fontSize) with ratio 1.5 or 1.35, in hundredths
roundRatio(platform, fontSize) ==
    LET pct == IF platform = "darwin" THEN 150 ELSE 135
    IN  (pct * fontSize + 50) \div 100

\* calcLineHeight without the assert of line 205, a missing font size
\* counting as 0
calcLineHeight_NoAssert(platform, fontSize) ==
    IF fontSize = Null THEN Some(Max(8, roundRatio(platform, 0)))
    ELSE Some(Max(8, roundRatio(platform, Get(fontSize))))

\* the line height, or Null when assert(fontSize) fails (undefined or 0)
calcLineHeight(platform, fontSize) ==
    IF fontSize = Null \/ Get(fontSize) = 0
    THEN Null
    ELSE Some(Max(8, roundRatio(platform, Get(fontSize))))

----------------------------------------------------------------------------
(* generateBackgroundImage, extension.ts lines 10-57: the attributes of   *)
(* the <line> element of the SVG, percentages as numbers                   *)

BackgroundImageTypes ==
    {"top-left-to-bottom-right", "top-right-to-bottom-left", "vertical"}

\* generateBackgroundImage with stroke="red" written into the SVG
generateBackgroundImage_AlwaysRed(type, cfg) ==
    LET ends == CASE type = "top-left-to-bottom-right" ->
                        [x1 |-> 0, y1 |-> 0, x2 |-> 100, y2 |-> 100]
                  [] type = "top-right-to-bottom-left" ->
                        [x1 |-> 100, y1 |-> 0, x2 |-> 0, y2 |-> 100]
                  [] type = "vertical" ->
                        [x1 |-> 50, y1 |-> 0, x2 |-> 50, y2 |-> 100]
    IN  [ x1 |-> ends.x1, y1 |-> ends.y1, x2 |-> ends.x2, y2 |-> ends.y2,
          stroke        |-> "red",
          strokeWidth   |-> cfg.lineWidth,
          strokeOpacity |-> cfg.lineOpacity ]

generateBackgroundImage(type, cfg) ==
    LET ends == CASE type = "top-left-to-bottom-right" ->
                        [x1 |-> 0, y1 |-> 0, x2 |-> 100, y2 |-> 100]
                  [] type = "top-right-to-bottom-left" ->
                        [x1 |-> 100, y1 |-> 0, x2 |-> 0, y2 |-> 100]
                  [] type = "vertical" ->
                        [x1 |-> 50, y1 |-> 0, x2 |-> 50, y2 |-> 100]
    IN  [ x1 |-> ends.x1, y1 |-> ends.y1, x2 |-> ends.x2, y2 |-> ends.y2,
          stroke        |-> cfg.lineColor,
          strokeWidth   |-> cfg.lineWidth,
          strokeOpacity |-> cfg.lineOpacity ]

----------------------------------------------------------------------------
(* The editor's world: documents, the words in them, cursor positions and  *)
(* what the definition provider can answer                                 *)

DocA   == Uri("file", "/a.ts")
DocGit == Uri("git", "/a.ts")    \* the same path under another scheme
DocB   == Uri("file", "/b.ts")

\* the documents an active editor can show
EditorDocuments == {DocA}

WordRanges ==
    { Range(Position(3, 2), Position(3, 5)),
      Range(Position(6, 8), Position(6, 12)) }

\* where the cursor can be: twice in the first word, once in the second,
\* once on no word
CursorPositions ==
    { Position(3, 2), Position(3, 4), Position(6, 9), Position(4, 0) }

\* document.getWordRangeAtPosition(pos): the word holding pos, if any
getWordRangeAtPosition(pos) ==
    { w \in WordRanges : /\ w.start.line = pos.line
                         /\ w.start.character <= pos.character
                         /\ pos.character <= w.end.character }

\* vscode.Location {uri, range}; vscode.LocationLink {targetUri,
\* targetRange, targetSelectionRange?}. A field the object lacks is Null.
Location(uri, range) ==
    [ uri |-> Some(uri), range |-> Some(range),
      targetUri |-> Null, targetRange |-> Null,
      targetSelectionRange |-> Null ]

LocationLink(targetUri, targetRange, targetSelectionRange) ==
    [ uri |-> Null, range |-> Null,
      targetUri |-> Some(targetUri), targetRange |-> Some(targetRange),
      targetSelectionRange |-> targetSelectionRange ]

LocSame     == Location(DocA, Range(Position(0, 6), Position(0, 9)))
LocOther    == Location(DocB, Range(Position(0, 6), Position(0, 9)))
LocGit      == Location(DocGit, Range(Position(0, 6), Position(0, 9)))
LocMulti    == Location(DocA, Range(Position(8, 0), Position(9, 3)))
LinkPlain   == LocationLink(DocA, Range(Position(1, 0), Position(1, 4)), Null)
LinkPrecise == LocationLink(DocA, Range(Position(10, 0), Position(12, 1)),
                            Some(Range(Position(10, 2), Position(10, 5))))

\* the answers of vscode.executeDefinitionProvider
Responses ==
    { <<>>, <<LocSame>>, <<LocGit>>, <<LocMulti>>,
      <<LinkPrecise>>, <<LinkPlain, LocOther>> }

----------------------------------------------------------------------------
(* getDefinitionRange after its await, extension.ts lines 82-106 *)

\* rangeOfLocation taking targetRange of every location link
rangeOfLocation_TargetRangeOnly(uri, location) ==
    LET isLocationLink == location.targetUri # Null
        locationUri    == IF isLocationLink THEN Get(location.targetUri)
                                            ELSE Get(location.uri)
    IN  IF locationUri.path # uri.path THEN Null
        ELSE IF isLocationLink THEN location.targetRange
        ELSE location.range

\* the range getDefinitionRange takes out of one location, lines 92-106
rangeOfLocation(uri, location) ==
    LET isLocationLink == location.targetUri # Null
        locationUri    == IF isLocationLink THEN Get(location.targetUri)
                                            ELSE Get(location.uri)
    IN  IF locationUri.path # uri.path THEN Null
        ELSE IF isLocationLink /\ location.targetSelectionRange # Null
             THEN location.targetSelectionRange
        ELSE IF isLocationLink THEN location.targetRange
        ELSE location.range

\* getDefinitionRange taking the first of several candidates
getDefinitionRange_FirstOfMany(uri, locations) ==
    IF Len(locations) = 0 THEN Null
    ELSE rangeOfLocation(uri, locations[1])

getDefinitionRange(uri, locations) ==
    IF Len(locations) = 0 THEN Null
    ELSE IF Len(locations) # 1 THEN Null
    ELSE rangeOfLocation(uri, locations[1])

----------------------------------------------------------------------------
(* getDisplayDecoration, extension.ts lines 116-199 *)

\* beforeLookup without the short circuit of lines 135-137
beforeLookup_NoShortCircuit(editor, cursorWordRange, last) ==
    IF editor = Null THEN "none"
    ELSE IF cursorWordRange = Null THEN "none"
    ELSE "pending"

\* beforeLookup keeping whatever is stored, without the isEqual of line 135
beforeLookup_KeepsWheneverStored(editor, cursorWordRange, last) ==
    IF editor = Null THEN "none"
    ELSE IF cursorWordRange = Null THEN "none"
    ELSE IF last # Null THEN "keep-last-display"
    ELSE "pending"

\* lines 121-137: the result known before the lookup, or "pending"
beforeLookup(editor, cursorWordRange, last) ==
    IF editor = Null THEN "none"
    ELSE IF cursorWordRange = Null THEN "none"
    ELSE IF last # Null
            /\ isEqual(Get(cursorWordRange), Get(last).cursorWordRange)
         THEN "keep-last-display"
    ELSE "pending"

\* backgroundTypeOf with the two cases of an earlier version
backgroundTypeOf_NoVertical(definitionCenterPos, cursorWordCenterPos) ==
    IF definitionCenterPos.character <= cursorWordCenterPos.character
    THEN "top-left-to-bottom-right"
    ELSE "top-right-to-bottom-left"

\* lines 151-159
backgroundTypeOf(definitionCenterPos, cursorWordCenterPos) ==
    LET widthDiff == definitionCenterPos.character
                        - cursorWordCenterPos.character
    IN  IF widthDiff = 0 THEN "vertical"
        ELSE IF widthDiff < 0 THEN "top-left-to-bottom-right"
        ELSE "top-right-to-bottom-left"

\* widthCharsOf without the Math.max(2, ...)
widthCharsOf_NoMinimum(decorationRange, backgroundType) ==
    decorationRange.end.character
        - decorationRange.start.character
        - (IF backgroundType = "top-right-to-bottom-left" THEN 1 ELSE 0)

\* lines 165-170
widthCharsOf(decorationRange, backgroundType) ==
    Max(2, decorationRange.end.character
              - decorationRange.start.character
              - (IF backgroundType = "top-right-to-bottom-left" THEN 1 ELSE 0))

\* line 171
heightLinesOf(decorationRange) ==
    decorationRange.end.line - decorationRange.start.line

\* lines 145-196: the range decorated and the options of the decoration
\* type (the CSS object given to cssObjectToString, entry by entry)
buildDecoration(cfg, lh, definitionRange, cursorWordRange) ==
    LET definitionCenterPos == centerPosFromWordRange(definitionRange)
        cursorWordCenterPos == centerPosFromWordRange(cursorWordRange)
        decorationRange ==
            createRangeForPositions(definitionCenterPos, cursorWordCenterPos)
        backgroundType ==
            backgroundTypeOf(definitionCenterPos, cursorWordCenterPos)
        widthChars  == widthCharsOf(decorationRange, backgroundType)
        heightLines == heightLinesOf(decorationRange)
    IN  [ range |-> decorationRange,
          css   |-> [ position        |-> "absolute",
                      width           |-> charsToCss(widthChars),
                      height          |-> linesToCss(heightLines - 1, lh),
                      top             |-> linesToCss(1, lh),
                      display         |-> "inline-block",
                      zIndex          |-> 1,
                      pointerEvents   |-> "none",
                      backgroundSize  |-> "100% 100%",
                      backgroundRepeat |-> "no-repeat",
                      backgroundImage |->
                          generateBackgroundImage(backgroundType, cfg) ] ]

\* lines 141-198: what the rest of getDisplayDecoration comes to once
\* getDefinitionRange has returned definitionRange: "none", "threw" (an
\* assertion of centerPosFromWordRange failed) or "new-display"
afterLookup(definitionRange, cursorWordRange) ==
    IF definitionRange = Null THEN "none"
    ELSE IF ~singleLine(Get(definitionRange)) THEN "threw"
    ELSE IF ~singleLine(cursorWordRange) THEN "threw"
    ELSE "new-display"

----------------------------------------------------------------------------
(* The state machine *)

IdleHandler ==
    [ pc              |-> "idle",
      config          |-> Null,    \* the config argument of line 240
      uri             |-> Null,    \* editor.document.uri; Null: no editor
      cursorWordRange |-> Null,
      result          |-> "",      \* DisplayResult type, or "threw"
      data            |-> Null,    \* DisplayResult data
      response        |-> Null,    \* the provider's answer
      definitionRange |-> Null,    \* what getDefinitionRange returned
      lookedUp        |-> FALSE,
      stale           |-> FALSE ]  \* answered after a later event's lookup

NoEvent ==
    [ word |-> Null, sameAsPrev |-> FALSE, decision |-> "",
      lookedUp |-> FALSE, anchored |-> FALSE ]

NoCommit ==
    [ h |-> 0, result |-> "", uri |-> Null, cursorWordRange |-> Null,
      response |-> Null, lookedUp |-> FALSE, stale |-> FALSE,
      before |-> Null ]

AllSubscriptions ==
    {"onDidChangeConfiguration", "onDidChangeTextEditorSelection"}

\* no function is being applied on its own
NoProbe == [ kind |-> "none", args |-> <<>>, result |-> Null ]

\* activate, extension.ts lines 227-266: calcLineHeight throws before
\* anything is registered, or both listeners are registered
Init ==
    \E platform \in Platforms, fontSize \in FontSizes, s \in SettingsChoices :
        /\ lineHeight = calcLineHeight(platform, fontSize)
        /\ settings = s
        /\ config = IF lineHeight = Null THEN Null ELSE Some(getConfig(s))
        /\ subscriptions = IF lineHeight = Null THEN {} ELSE AllSubscriptions
        /\ lastDecoration = Null
        /\ handlers = [h \in Handlers |-> IdleHandler]
        /\ microtasks = <<>>
        /\ issued = 0
        /\ latestAnswered = 0
        /\ decorationTypes = [h \in Handlers |-> Null]
        /\ disposals = [h \in Handlers |-> 0]
        /\ editorDecorations = {}
        /\ unhandledRejections = 0
        /\ lastEvent = NoEvent
        /\ lastCommit = NoCommit
        /\ probe = NoProbe

\* the user edits the settings; onDidChangeConfiguration, lines 233-235
ChangeConfiguration(s) ==
    /\ microtasks = <<>>
    /\ s # settings
    /\ settings' = s
    /\ config' = IF "onDidChangeConfiguration" \in subscriptions
                 THEN Some(getConfig(s)) ELSE config
    /\ UNCHANGED <<subscriptions, lineHeight, lastDecoration, handlers,
                   microtasks, issued, latestAnswered, decorationTypes,
                   disposals, editorDecorations, unhandledRejections,
                   lastEvent, lastCommit, probe>>

\* onDidChangeTextEditorSelection, line 239-240, and getDisplayDecoration
\* up to its await (lines 121-140, 77-81): the handler either has its
\* result at once or has called executeDefinitionProvider
CursorEvent(editor, pos) ==
    /\ "onDidChangeTextEditorSelection" \in subscriptions
    /\ microtasks = <<>>
    /\ issued < MaxEvents
    /\ LET h      == issued + 1
           word   == IF editor = Null THEN Null
                     ELSE getWordRangeAtPosition(pos)
           result == beforeLookup(editor, word, lastDecoration)
           lookup == result = "pending"
       IN  /\ handlers' = [handlers EXCEPT ![h] =
                  [ pc              |-> IF lookup THEN "awaiting"
                                                  ELSE "resolved",
                    config          |-> config,
                    uri             |-> editor,
                    cursorWordRange |-> word,
                    result          |-> result,
                    data            |-> Null,
                    response        |-> Null,
                    definitionRange |-> Null,
                    lookedUp        |-> lookup,
                    stale           |-> FALSE ]]
           /\ microtasks' = IF lookup THEN microtasks
                            ELSE Append(microtasks, h)
           /\ issued' = h
           /\ lastEvent' =
                  [ word       |-> word,
                    sameAsPrev |-> /\ issued > 0
                                   /\ word # Null
                                   /\ word = lastEvent.word,
                    decision   |-> result,
                    lookedUp   |-> lookup,
                    anchored   |-> /\ word # Null
                                   /\ lastDecoration # Null
                                   /\ Get(lastDecoration).cursorWordRange
                                          = Get(word) ]
    /\ UNCHANGED <<subscriptions, lineHeight, settings, config,
                   lastDecoration, latestAnswered, decorationTypes,
                   disposals, editorDecorations, unhandledRejections,
                   lastCommit, probe>>

\* the provider answers: the promise handler h's getDefinitionRange awaits
\* (lines 77-81) is resolved and its continuation queued. Several answers
\* can arrive in one task, before any continuation has run.
Deliver(h, locations) ==
    /\ handlers[h].pc = "awaiting"
    /\ \A i \in 1..Len(microtasks) : handlers[microtasks[i]].pc = "answered"
    /\ handlers' = [handlers EXCEPT ![h] =
           [ @ EXCEPT !.pc       = "answered",
                      !.response = Some(locations),
                      !.stale    = latestAnswered > h ]]
    /\ latestAnswered' = Max(latestAnswered, h)
    /\ microtasks' = Append(microtasks, h)
    /\ UNCHANGED <<subscriptions, lineHeight, settings, config,
                   lastDecoration, issued, decorationTypes, disposals,
                   editorDecorations, unhandledRejections, lastEvent,
                   lastCommit, probe>>

\* getDefinitionRange after its await, lines 82-106: its return resolves
\* the promise getDisplayDecoration awaits at line 140
ContinueGetDefinitionRange(h) ==
    /\ microtasks # <<>>
    /\ h = Head(microtasks)
    /\ handlers[h].pc = "answered"
    /\ handlers' = [handlers EXCEPT ![h] =
           [ @ EXCEPT !.pc = "located",
                      !.definitionRange =
                          getDefinitionRange(Get(handlers[h].uri),
                                             Get(handlers[h].response)) ]]
    /\ microtasks' = Append(Tail(microtasks), h)
    /\ UNCHANGED <<subscriptions, lineHeight, settings, config,
                   lastDecoration, issued, latestAnswered, decorationTypes,
                   disposals, editorDecorations, unhandledRejections,
                   lastEvent, lastCommit, probe>>

\* getDisplayDecoration after its await, lines 141-198: its return (or its
\* throw) settles the promise the handler awaits at line 240
ContinueGetDisplayDecoration(h) ==
    /\ microtasks # <<>>
    /\ h = Head(microtasks)
    /\ handlers[h].pc = "located"
    /\ LET me      == handlers[h]
           outcome == afterLookup(me.definitionRange,
                                  Get(me.cursorWordRange))
           built   == buildDecoration(
                          Get(me.config), Get(lineHeight),
                          Get(me.definitionRange),
                          Get(me.cursorWordRange))
           isNew   == outcome = "new-display"
       IN  /\ handlers' = [handlers EXCEPT ![h] =
                  [ me EXCEPT
                      !.pc     = "resolved",
                      !.result = outcome,
                      !.data   = IF isNew
                                 THEN Some([ cursorWordRange |->
                                               Get(me.cursorWordRange),
                                             decoration |-> h ])
                                 ELSE Null ]]
           /\ decorationTypes' =
                  IF isNew
                  THEN [decorationTypes EXCEPT ![h] = Some(built.css)]
                  ELSE decorationTypes
           /\ editorDecorations' =
                  IF isNew
                  THEN editorDecorations \cup
                          {[ decoration |-> h, uri |-> Get(me.uri),
                             range |-> built.range ]}
                  ELSE editorDecorations
    /\ microtasks' = Append(Tail(microtasks), h)
    /\ UNCHANGED <<subscriptions, lineHeight, settings, config,
                   lastDecoration, issued, latestAnswered, disposals,
                   unhandledRejections, lastEvent, lastCommit, probe>>

\* lastDecoration.decoration.dispose(): the host drops the decoration
\* type and takes what it displayed out of the editors
disposed(last, counts) ==
    IF last = Null THEN counts
    ELSE [counts EXCEPT ![Get(last).decoration] = @ + 1]

dropped(last, types) ==
    IF last = Null THEN types
    ELSE [types EXCEPT ![Get(last).decoration] = Null]

undisplayed(last, shown) ==
    IF last = Null THEN shown
    ELSE { e \in shown : e.decoration # Get(last).decoration }

\* toDispose without the dispose of lines 255-257
toDispose_OnlyOnNone(result, last) ==
    IF result = "none" THEN last ELSE Null

\* toDispose with the dispose ahead of the switch, in every case
toDispose_InEveryCase(result, last) == last

\* lines 248-249 and 255-256: if (lastDecoration) dispose, in the cases
\* "none" and "new-display"
toDispose(result, last) ==
    IF result \in {"none", "new-display"} THEN last ELSE Null

\* nextLastDecoration without the assignment of line 250
nextLastDecoration_KeptOnNone(result, data, last) ==
    CASE result = "new-display" -> data
      [] OTHER                  -> last

\* lines 250 and 258: lastDecoration after the switch
nextLastDecoration(result, data, last) ==
    CASE result = "none"        -> Null
      [] result = "new-display" -> data
      [] OTHER                  -> last

\* the handler after its await, lines 241-263; a rejected
\* getDisplayDecoration rejects the handler's own promise, which nothing
\* awaits
Commit(h) ==
    /\ microtasks # <<>>
    /\ h = Head(microtasks)
    /\ handlers[h].pc = "resolved"
    /\ LET me   == handlers[h]
           gone == toDispose(me.result, lastDecoration)
       IN  /\ disposals' = disposed(gone, disposals)
           /\ decorationTypes' = dropped(gone, decorationTypes)
           /\ editorDecorations' = undisplayed(gone, editorDecorations)
           /\ lastDecoration' =
                  nextLastDecoration(me.result, me.data, lastDecoration)
           /\ unhandledRejections' =
                  IF me.result = "threw" THEN unhandledRejections + 1
                  ELSE unhandledRejections
           /\ lastCommit' =
                  [ h               |-> h,
                    result          |-> me.result,
                    uri             |-> me.uri,
                    cursorWordRange |-> me.cursorWordRange,
                    response        |-> me.response,
                    lookedUp        |-> me.lookedUp,
                    stale           |-> me.stale,
                    before          |-> lastDecoration ]
    /\ handlers' = [handlers EXCEPT ![h] = IdleHandler]
    /\ microtasks' = Tail(microtasks)
    /\ UNCHANGED <<subscriptions, lineHeight, settings, config, issued,
                   latestAnswered, lastEvent, probe>>

Next ==
    \/ \E s \in SettingsChoices : ChangeConfiguration(s)
    \/ \E editor \in {Null} \cup {Some(d) : d \in EditorDocuments},
          pos \in CursorPositions : CursorEvent(editor, pos)
    \/ \E h \in Handlers, locations \in Responses : Deliver(h, locations)
    \/ \E h \in Handlers : ContinueGetDefinitionRange(h)
    \/ \E h \in Handlers : ContinueGetDisplayDecoration(h)
    \/ \E h \in Handlers : Commit(h)

Spec == Init /\ [][Next]_vars

----------------------------------------------------------------------------
(* The functions of extension.ts applied on their own: the arguments are   *)
(* drawn at the start, one action per function computes its result         *)

MaxLine == 2
MaxColumn == 5

ProbeColumns == 0..MaxColumn

ProbePositions ==
    { Position(l, c) : l \in 0..MaxLine, c \in ProbeColumns }

\* the ranges a word can have: on one line, the start not after the end
ProbeRanges ==
    { r \in { Range(Position(l, s), Position(l, e)) :
                  l \in 0..MaxLine, s \in ProbeColumns, e \in ProbeColumns } :
          r.start.character <= r.end.character }

\* the ranges of a word of one character
ProbePointRanges ==
    { r \in ProbeRanges : r.start.character = r.end.character }

\* settings that also carry the key getConfig reads the opacity from
WithOpacityKey == [Customised EXCEPT !["opacity"] = Some(80)]

ProbeSettings == SettingsChoices \cup {WithOpacityKey}

ProbeConfigs == { getConfig(s) : s \in ProbeSettings }

\* the line heights of a small and of the default font, on each platform
ProbeLineHeights ==
    { Get(calcLineHeight(platform, fontSize)) :
          platform \in Platforms, fontSize \in {Some(5), Some(14)} }

\* the values of the lineColor setting: unset, or a colour
ProbeColors == {Null, Some("blue")}

\* settings s with its lineColor set to color
withLineColor(s, color) == [s EXCEPT !["lineColor"] = color]

\* two word ranges that differ and have the same centre (r1 the wider
\* one, or the one starting first: each pair once)
sameCenter(r1, r2) ==
    /\ r1 # r2
    /\ centerPosFromWordRange(r1) = centerPosFromWordRange(r2)
    /\ \/ r1.start.character < r2.start.character
       \/ /\ r1.start.character = r2.start.character
          /\ r1.end.character > r2.end.character

\* what a definition provider can put in one candidate
ProbeTargets ==
    { Range(Position(0, 1), Position(0, 4)),
      Range(Position(1, 2), Position(1, 3)),
      Range(Position(1, 0), Position(2, 5)) }

ProbeDocuments == {DocA, DocB, DocGit}

ProbeLocations ==
    { Location(d, r) : d \in ProbeDocuments, r \in ProbeTargets }
    \cup { LocationLink(d, r, sel) :
               d \in ProbeDocuments, r \in ProbeTargets,
               sel \in {Null} \cup { Some(x) : x \in ProbeTargets } }

ProbeResponses ==
    {<<>>} \cup { <<l>> : l \in ProbeLocations }
           \cup { <<l, LocSame>> : l \in ProbeLocations }

\* activate has not run: nothing of the extension exists
Dormant ==
    /\ subscriptions = {}
    /\ lineHeight = Null
    /\ config = Null
    /\ lastDecoration = Null
    /\ handlers = [h \in Handlers |-> IdleHandler]
    /\ microtasks = <<>>
    /\ issued = 0
    /\ latestAnswered = 0
    /\ decorationTypes = [h \in Handlers |-> Null]
    /\ disposals = [h \in Handlers |-> 0]
    /\ editorDecorations = {}
    /\ unhandledRejections = 0
    /\ lastEvent = NoEvent
    /\ lastCommit = NoCommit

programVars ==
    <<subscriptions, lineHeight, settings, config, lastDecoration, handlers,
      microtasks, issued, latestAnswered, decorationTypes, disposals,
      editorDecorations, unhandledRejections, lastEvent, lastCommit>>

Pending(kind, args) == [ kind |-> kind, args |-> args, result |-> Null ]

InitGeometry ==
    /\ Dormant
    /\ \/ \E s \in ProbeColumns, e \in ProbeColumns :
              /\ s <= e
              /\ probe = Pending("centerOfRange", [start |-> s, end |-> e])
       \/ \E r \in ProbeRanges :
              probe = Pending("centerPosFromWordRange", [range |-> r])
       \/ \E a \in ProbePositions, b \in ProbePositions :
              probe = Pending("createRangeForPositions",
                              [pos1 |-> a, pos2 |-> b])
       \/ \E d \in ProbePositions, c \in ProbePositions :
              probe = Pending("backgroundTypeOf",
                              [definitionCenterPos |-> d,
                               cursorWordCenterPos |-> c])
       \/ \E type \in BackgroundImageTypes, cfg \in ProbeConfigs :
              probe = Pending("generateBackgroundImage",
                              [type |-> type, config |-> cfg])
       \/ \E uri \in ProbeDocuments, locations \in ProbeResponses :
              probe = Pending("getDefinitionRange",
                              [uri |-> uri, locations |-> locations])
       \/ \E s \in SettingsChoices, lh \in ProbeLineHeights,
             d \in ProbeRanges, w \in ProbeRanges :
              probe = Pending("getDisplayDecoration",
                              [config |-> getConfig(s), lineHeight |-> lh,
                               definitionRange |-> d, cursorWordRange |-> w])
       \/ \E s \in SettingsChoices, c1 \in ProbeColors, c2 \in ProbeColors,
             lh \in ProbeLineHeights, d \in ProbePointRanges,
             w1 \in ProbeRanges, w2 \in ProbeRanges :
              /\ c1 # c2
              /\ sameCenter(w1, w2)
              /\ probe = Pending("reload",
                                 [before |-> withLineColor(s, c1),
                                  after |-> withLineColor(s, c2),
                                  lineHeight |-> lh, definitionRange |-> d,
                                  first |-> w1, second |-> w2])
    /\ settings = IF probe.kind = "reload" THEN probe.args.before
                  ELSE NoSettings

\* the result of the function is computed from the arguments drawn
Applied(kind, result) ==
    /\ probe.kind = kind
    /\ probe.result = Null
    /\ probe' = [probe EXCEPT !.result = Some(result)]
    /\ UNCHANGED programVars

ApplyCenterOfRange ==
    Applied("centerOfRange",
            centerOfRange(probe.args.start, probe.args.end))

ApplyCenterPosFromWordRange ==
    Applied("centerPosFromWordRange",
            centerPosFromWordRange(probe.args.range))

\* both orders of the two positions
ApplyCreateRangeForPositions ==
    Applied("createRangeForPositions",
            [ given   |-> createRangeForPositions(probe.args.pos1,
                                                  probe.args.pos2),
              swapped |-> createRangeForPositions(probe.args.pos2,
                                                  probe.args.pos1) ])

ApplyBackgroundTypeOf ==
    Applied("backgroundTypeOf",
            backgroundTypeOf(probe.args.definitionCenterPos,
                             probe.args.cursorWordCenterPos))

ApplyGenerateBackgroundImage ==
    Applied("generateBackgroundImage",
            generateBackgroundImage(probe.args.type, probe.args.config))

\* getDefinitionRange once the provider has answered locations
ApplyGetDefinitionRange ==
    Applied("getDefinitionRange",
            getDefinitionRange(probe.args.uri, probe.args.locations))

\* what createTextEditorDecorationType and setDecorations (lines 188-196)
\* leave on the host: decoration type id exists and is on display in the
\* active editor
created(id, built, types) == [types EXCEPT ![id] = Some(built.css)]

displayed(id, built, shown) ==
    shown \cup {[ decoration |-> id, uri |-> DocA, range |-> built.range ]}

\* getDisplayDecoration from line 145 on, for a definition on one line:
\* the first decoration type of the host is created and displayed
ApplyGetDisplayDecoration ==
    /\ probe.kind = "getDisplayDecoration"
    /\ probe.result = Null
    /\ LET built == buildDecoration(probe.args.config, probe.args.lineHeight,
                                    probe.args.definitionRange,
                                    probe.args.cursorWordRange)
       IN  /\ probe' = [probe EXCEPT !.result = Some(built)]
           /\ decorationTypes' = created(1, built, decorationTypes)
           /\ editorDecorations' = displayed(1, built, editorDecorations)
    /\ UNCHANGED <<subscriptions, lineHeight, settings, config,
                   lastDecoration, handlers, microtasks, issued,
                   latestAnswered, disposals, unhandledRejections,
                   lastEvent, lastCommit>>

\* the reload, first call up to its await: getConfig() on the settings as
\* they are, getDisplayDecoration called for the first word, its lookup
\* pending (lines 77-81)
ApplyReloadFirstCall ==
    /\ probe.kind = "reload"
    /\ probe.result = Null
    /\ probe' = [probe EXCEPT !.result =
                    Some([ firstConfig  |-> Some(getConfig(settings)),
                           first        |-> Null,
                           reloaded     |-> FALSE,
                           secondConfig |-> Null,
                           second       |-> Null ])]
    /\ UNCHANGED programVars

\* the reload, first call after its await (lines 145-198), with the
\* configuration it was called with
ApplyReloadFirstSettled ==
    /\ probe.kind = "reload"
    /\ probe.result # Null
    /\ Get(probe.result).first = Null
    /\ LET built == buildDecoration(Get(Get(probe.result).firstConfig),
                                    probe.args.lineHeight,
                                    probe.args.definitionRange,
                                    probe.args.first)
       IN  /\ probe' = [probe EXCEPT !.result =
                           Some([Get(probe.result) EXCEPT
                                     !.first = Some(built)])]
           /\ decorationTypes' = created(1, built, decorationTypes)
           /\ editorDecorations' = displayed(1, built, editorDecorations)
    /\ UNCHANGED <<subscriptions, lineHeight, settings, config,
                   lastDecoration, handlers, microtasks, issued,
                   latestAnswered, disposals, unhandledRejections,
                   lastEvent, lastCommit>>

\* the reload, in between: the user changes the lineColor setting, while
\* the first lookup is pending or after the first call has settled
ApplyReloadSettings ==
    /\ probe.kind = "reload"
    /\ probe.result # Null
    /\ ~Get(probe.result).reloaded
    /\ settings' = probe.args.after
    /\ probe' = [probe EXCEPT !.result =
                    Some([Get(probe.result) EXCEPT !.reloaded = TRUE])]
    /\ UNCHANGED <<subscriptions, lineHeight, config, lastDecoration,
                   handlers, microtasks, issued, latestAnswered,
                   decorationTypes, disposals, editorDecorations,
                   unhandledRejections, lastEvent, lastCommit>>

\* the reload, second call up to its await: getConfig() on the changed
\* settings, getDisplayDecoration called for the second word
ApplyReloadSecondCall ==
    /\ probe.kind = "reload"
    /\ probe.result # Null
    /\ Get(probe.result).first # Null
    /\ Get(probe.result).reloaded
    /\ Get(probe.result).secondConfig = Null
    /\ probe' = [probe EXCEPT !.result =
                    Some([Get(probe.result) EXCEPT
                              !.secondConfig = Some(getConfig(settings))])]
    /\ UNCHANGED programVars

\* the reload, second call after its await (lines 145-198)
ApplyReloadSecondSettled ==
    /\ probe.kind = "reload"
    /\ probe.result # Null
    /\ Get(probe.result).secondConfig # Null
    /\ Get(probe.result).second = Null
    /\ LET built == buildDecoration(Get(Get(probe.result).secondConfig),
                                    probe.args.lineHeight,
                                    probe.args.definitionRange,
                                    probe.args.second)
       IN  /\ probe' = [probe EXCEPT !.result =
                           Some([Get(probe.result) EXCEPT
                                     !.second = Some(built)])]
           /\ decorationTypes' = created(2, built, decorationTypes)
           /\ editorDecorations' = displayed(2, built, editorDecorations)
    /\ UNCHANGED <<subscriptions, lineHeight, settings, config,
                   lastDecoration, handlers, microtasks, issued,
                   latestAnswered, disposals, unhandledRejections,
                   lastEvent, lastCommit>>

NextGeometry ==
    \/ ApplyCenterOfRange
    \/ ApplyCenterPosFromWordRange
    \/ ApplyCreateRangeForPositions
    \/ ApplyBackgroundTypeOf
    \/ ApplyGenerateBackgroundImage
    \/ ApplyGetDefinitionRange
    \/ ApplyGetDisplayDecoration
    \/ ApplyReloadFirstCall
    \/ ApplyReloadFirstSettled
    \/ ApplyReloadSettings
    \/ ApplyReloadSecondCall
    \/ ApplyReloadSecondSettled

SpecGeometry == InitGeometry /\ [][NextGeometry]_vars

----------------------------------------------------------------------------
(* What the claims speak of *)

\* the decoration types that have been created and not disposed
LiveDecorations == { id \in Handlers : decorationTypes[id] # Null }

\* handler h never had a decoration type created for it
NeverCreated(h) == decorationTypes[h] = Null /\ disposals[h] = 0

\* what setDecorations displays for handler h's decoration type
Shown(h) == { e \in editorDecorations : e.decoration = h }

\* no handler is running
Quiescent == \A h \in Handlers : handlers[h].pc = "idle"

\* handler h has its result and its continuation has not run yet
Resolved(h) == handlers[h].pc = "resolved"

\* the function named kind has been applied on its own to probe.args
Computed(kind) == probe.kind = kind /\ probe.result # Null

\* position p is not after position q (vscode.Position.isBeforeOrEqual)
isBeforeOrEqual(p, q) ==
    \/ p.line < q.line
    \/ p.line = q.line /\ p.character <= q.character

\* position p lies in range r (vscode.Range.contains)
contains(r, p) == isBeforeOrEqual(r.start, p) /\ isBeforeOrEqual(p, r.end)

\* c is start + floor((end - start) / 2)
IsFloorCenter(c, start, end) ==
    /\ 2 * (c - start) <= end - start
    /\ end - start <= 2 * (c - start) + 1

\* the endpoints of the line of an SVG, in percent
Endpoints(image) == <<image.x1, image.y1, image.x2, image.y2>>

\* the answer holds exactly one definition in the current document, and
\* its range spans several lines
MultiLineDefinition(uri, response) ==
    /\ uri # Null
    /\ response # Null
    /\ LET definitionRange == getDefinitionRange(Get(uri), Get(response))
       IN  definitionRange # Null /\ ~singleLine(Get(definitionRange))

\* the number of candidates of an answer
Candidates(response) == IF response = Null THEN 0 ELSE Len(Get(response))

\* the document a location points into
targetOf(location) ==
    IF location.targetUri # Null THEN Get(location.targetUri)
    ELSE Get(location.uri)

\* the answer holds exactly one candidate, in a document of another URI
CrossDocument(uri, response) ==
    /\ uri # Null
    /\ Candidates(response) = 1
    /\ targetOf(Get(response)[1]) # Get(uri)

\* no editor, no word under the cursor, or an empty answer
Unresolvable(uri, word, response) ==
    uri = Null \/ word = Null \/ response = Some(<<>>)

----------------------------------------------------------------------------
(* C1: a lookup answered after the answer of a later-issued lookup is      *)
(* discarded: it creates no decoration type, displays nothing, disposes    *)
(* nothing and leaves the stored decoration as it was.                     *)
C1_StaleResponseDiscarded ==
    /\ \A h \in Handlers :
          (Resolved(h) /\ handlers[h].stale)
              => (NeverCreated(h) /\ Shown(h) = {})
    /\ lastCommit.stale
          => /\ lastDecoration = lastCommit.before
             /\ NeverCreated(lastCommit.h)

(* C2 as stated: of two consecutive cursor events on the same word range,  *)
(* the second decides keep-last-display and issues no lookup, whatever     *)
(* became of the first.                                                    *)
C2_SecondEventAlwaysKept ==
    lastEvent.sameAsPrev
        => (lastEvent.decision = "keep-last-display" /\ ~lastEvent.lookedUp)

(* C2 amended: of two consecutive cursor events on the same word range,    *)
(* the second decides keep-last-display and issues no lookup exactly when, *)
(* as the second event is evaluated, a decoration anchored at that word    *)
(* range is stored, whichever handler stored it; otherwise it issues a     *)
(* lookup of its own.                                                      *)
C2_SecondEventKeptWhenAnchored ==
    lastEvent.sameAsPrev
        => /\ lastEvent.anchored
                => /\ lastEvent.decision = "keep-last-display"
                   /\ ~lastEvent.lookedUp
           /\ ~lastEvent.anchored
                => /\ lastEvent.decision = "pending"
                   /\ lastEvent.lookedUp

C2_Witness ==
    /\ lastEvent.sameAsPrev
    /\ lastEvent.anchored
    /\ lastEvent.decision = "keep-last-display"
    /\ issued = 2
    /\ lastCommit.h = 1
    /\ lastCommit.result = "new-display"

(* C3: at most one decoration type exists (created and not disposed) in    *)
(* every reachable state.                                                  *)
C3_AtMostOneDecoration == Cardinality(LiveDecorations) <= 1

(* C4: when no handler is running, the only decoration type that exists is *)
(* the stored one; and a commit that replaces or clears a stored           *)
(* decoration has disposed it, once.                                       *)
C4_NoLeak ==
    /\ Quiescent
          => \A id \in LiveDecorations :
                lastDecoration # Null /\ Get(lastDecoration).decoration = id
    /\ (lastCommit.result \in {"none", "new-display"}
            /\ lastCommit.before # Null)
          => /\ Get(lastCommit.before).decoration \notin LiveDecorations
             /\ disposals[Get(lastCommit.before).decoration] = 1

C4_Witness ==
    /\ Quiescent
    /\ lastCommit.result = "new-display"
    /\ lastCommit.before # Null
    /\ lastDecoration # Null
    /\ LiveDecorations = {Get(lastDecoration).decoration}
    /\ disposals[Get(lastCommit.before).decoration] = 1

(* C5: a single same-document definition whose range spans several lines *)
(* ends the cycle with Clear: the stored decoration is disposed, nothing   *)
(* is stored, and no error escapes the handler.                            *)
C5_InvalidRangeShapeClears ==
    MultiLineDefinition(lastCommit.uri, lastCommit.response)
        => /\ lastCommit.result = "none"
           /\ lastDecoration = Null
           /\ lastCommit.before # Null
                => Get(lastCommit.before).decoration \notin LiveDecorations
           /\ unhandledRejections = 0

(* C6: an answer of more than one candidate, in whatever documents, gives  *)
(* the decision none; no decoration type is created and nothing is         *)
(* displayed for that event.                                               *)
C6_AmbiguityClears ==
    /\ \A h \in Handlers :
          (Resolved(h) /\ Candidates(handlers[h].response) > 1)
              => /\ handlers[h].result = "none"
                 /\ NeverCreated(h)
                 /\ Shown(h) = {}
    /\ Candidates(lastCommit.response) > 1
          => /\ lastCommit.result = "none"
             /\ NeverCreated(lastCommit.h)
             /\ Shown(lastCommit.h) = {}
             /\ lastDecoration = Null

C6_Witness ==
    /\ lastCommit.response = Some(<<LinkPlain, LocOther>>)
    /\ lastCommit.result = "none"
    /\ lastCommit.before # Null
    /\ lastDecoration = Null

(* C7: a single candidate whose target URI differs from the URI of the     *)
(* current document gives the decision none, and no connector is drawn.    *)
C7_CrossDocumentClears ==
    /\ \A h \in Handlers :
          (Resolved(h) /\ CrossDocument(handlers[h].uri, handlers[h].response))
              => /\ handlers[h].result = "none"
                 /\ NeverCreated(h)
                 /\ Shown(h) = {}
    /\ CrossDocument(lastCommit.uri, lastCommit.response)
          => /\ lastCommit.result = "none"
             /\ NeverCreated(lastCommit.h)

(* C8: an event with no active editor, with no word under the cursor, or   *)
(* whose lookup answers the empty list decides none; once committed,       *)
(* nothing is stored and the decoration stored before it has been disposed *)
(* exactly once.                                                           *)
C8_UnresolvableClears ==
    /\ \A h \in Handlers :
          (Resolved(h) /\ Unresolvable(handlers[h].uri,
                                       handlers[h].cursorWordRange,
                                       handlers[h].response))
              => handlers[h].result = "none"
    /\ (lastCommit.h > 0 /\ Unresolvable(lastCommit.uri,
                                         lastCommit.cursorWordRange,
                                         lastCommit.response))
          => /\ lastCommit.result = "none"
             /\ lastDecoration = Null
             /\ lastCommit.before # Null
                  => /\ Get(lastCommit.before).decoration
                            \notin LiveDecorations
                     /\ disposals[Get(lastCommit.before).decoration] = 1

C8_Witness ==
    /\ lastCommit.h > 0
    /\ lastCommit.response = Some(<<>>)
    /\ lastCommit.result = "none"
    /\ lastCommit.before # Null
    /\ disposals[Get(lastCommit.before).decoration] = 1
    /\ lastDecoration = Null

(* C9: the colour, width and opacity of a line just built are those of the *)
(* configuration installed by the latest configuration change, also one    *)
(* delivered while the lookup was in flight.                               *)
C9_LatestConfigUsed ==
    \A h \in Handlers :
        (Resolved(h) /\ handlers[h].result = "new-display")
            => LET image == Get(decorationTypes[h]).backgroundImage
               IN  /\ image.stroke = Get(config).lineColor
                   /\ image.strokeWidth = Get(config).lineWidth
                   /\ image.strokeOpacity = Get(config).lineOpacity

(* C10: the stroke opacity of a line just built is the value the user set  *)
(* under the declared key lineOpacity, and the default 50 when that key is *)
(* unset.                                                                  *)
C10_DeclaredOpacityUsed ==
    \A h \in Handlers :
        (Resolved(h) /\ handlers[h].result = "new-display")
            => Get(decorationTypes[h]).backgroundImage.strokeOpacity
                  = getOr(settings, "lineOpacity", 50)

(* C11: the CSS height of the box, (heightLines - 1) * lineHeight, is      *)
(* never negative, whatever the cursor word range and the single-line      *)
(* definition range, the definition on the cursor's line included.         *)
C11_HeightNeverNegative ==
    Computed("getDisplayDecoration")
        => Get(probe.result).css.height.value >= 0

(* C12: the width of the box in characters is the width of the rectangle   *)
(* less 1 for an ascending line, raised to 2 where it would be less, so    *)
(* never under 2; the top inset is exactly one line.                       *)
C12_BoxWidthAndTopInset ==
    Computed("getDisplayDecoration")
        => LET built     == Get(probe.result)
               rectWidth == built.range.end.character
                               - built.range.start.character
               ascending == Endpoints(built.css.backgroundImage)
                               = <<100, 0, 0, 100>>
               trimmed   == rectWidth - (IF ascending THEN 1 ELSE 0)
           IN  /\ built.css.width.unit = "ch"
               /\ built.css.width.value >= 2
               /\ built.css.width.value
                     = (IF trimmed >= 2 THEN trimmed ELSE 2)
               /\ built.css.top.unit = "px"
               /\ built.css.top.value = probe.args.lineHeight

C12_Witness ==
    /\ Computed("getDisplayDecoration")
    /\ Endpoints(Get(probe.result).css.backgroundImage) = <<100, 0, 0, 100>>
    /\ Get(probe.result).range.end.character
          - Get(probe.result).range.start.character = 4
    /\ Get(probe.result).css.width.value = 3

(* C13: the orientation is one of the three for every pair of centres and  *)
(* follows from their columns alone: vertical exactly when the columns are *)
(* equal, top-left-to-bottom-right exactly when the definition's column is *)
(* the smaller, top-right-to-bottom-left exactly when it is the greater.   *)
C13_OrientationByColumns ==
    Computed("backgroundTypeOf")
        => LET d    == probe.args.definitionCenterPos.character
               c    == probe.args.cursorWordCenterPos.character
               type == Get(probe.result)
           IN  /\ type \in BackgroundImageTypes
               /\ (type = "vertical") <=> (d = c)
               /\ (type = "top-left-to-bottom-right") <=> (d < c)
               /\ (type = "top-right-to-bottom-left") <=> (d > c)

C13_Witness ==
    /\ Computed("backgroundTypeOf")
    /\ probe.args.definitionCenterPos.character
          = probe.args.cursorWordCenterPos.character
    /\ probe.args.definitionCenterPos.line
          # probe.args.cursorWordCenterPos.line
    /\ Get(probe.result) = "vertical"

(* C14: the line of the SVG runs from (50%,0%) to (50%,100%) for vertical, *)
(* from (0%,0%) to (100%,100%) for top-left-to-bottom-right and from       *)
(* (100%,0%) to (0%,100%) for top-right-to-bottom-left; its stroke colour, *)
(* width and opacity are those of the configuration passed in.             *)
C14_LineDescriptor ==
    Computed("generateBackgroundImage")
        => LET image == Get(probe.result)
               type  == probe.args.type
               cfg   == probe.args.config
           IN  /\ type = "vertical"
                     => Endpoints(image) = <<50, 0, 50, 100>>
               /\ type = "top-left-to-bottom-right"
                     => Endpoints(image) = <<0, 0, 100, 100>>
               /\ type = "top-right-to-bottom-left"
                     => Endpoints(image) = <<100, 0, 0, 100>>
               /\ image.stroke = cfg.lineColor
               /\ image.strokeWidth = cfg.lineWidth
               /\ image.strokeOpacity = cfg.lineOpacity

C14_Witness ==
    /\ Computed("generateBackgroundImage")
    /\ probe.args.type = "top-right-to-bottom-left"
    /\ probe.args.config
          = [lineColor |-> "blue", lineWidth |-> 2, lineOpacity |-> 80]
    /\ Get(probe.result).stroke = "blue"
    /\ Get(probe.result).strokeOpacity = 80

(* C15: for 0 <= start <= end, centerOfRange(start, end) is                *)
(* start + floor((end - start) / 2), so 2 for (0, 4) and for (0, 5); the   *)
(* centre of a word range is on the range's line, at the centerOfRange of  *)
(* its columns, between the start column and the end column.               *)
C15_CenterOfRange ==
    /\ Computed("centerOfRange")
          => LET s == probe.args.start
                 e == probe.args.end
                 c == Get(probe.result)
             IN  /\ IsFloorCenter(c, s, e)
                 /\ (s = 0 /\ e = 4) => c = 2
                 /\ (s = 0 /\ e = 5) => c = 2
    /\ Computed("centerPosFromWordRange")
          => LET r   == probe.args.range
                 pos == Get(probe.result)
             IN  /\ pos.line = r.start.line
                 /\ IsFloorCenter(pos.character, r.start.character,
                                  r.end.character)
                 /\ r.start.character <= pos.character
                 /\ pos.character <= r.end.character

C15_Witness ==
    /\ Computed("centerOfRange")
    /\ probe.args = [start |-> 0, end |-> 5]
    /\ Get(probe.result) = 2

(* C16: the range made of two positions a and b starts at (the smaller     *)
(* line, the smaller column) and ends at (the greater line, the greater    *)
(* column); it is the same for b and a; its start is not after its end,    *)
(* and a and b both lie in it.                                             *)
C16_BoundingRange ==
    Computed("createRangeForPositions")
        => LET a == probe.args.pos1
               b == probe.args.pos2
               r == Get(probe.result).given
           IN  /\ r.start.line = (IF a.line <= b.line THEN a.line ELSE b.line)
               /\ r.end.line = (IF a.line <= b.line THEN b.line ELSE a.line)
               /\ r.start.character = (IF a.character <= b.character
                                       THEN a.character ELSE b.character)
               /\ r.end.character = (IF a.character <= b.character
                                     THEN b.character ELSE a.character)
               /\ Get(probe.result).swapped = r
               /\ isBeforeOrEqual(r.start, r.end)
               /\ contains(r, a)
               /\ contains(r, b)

C16_Witness ==
    /\ Computed("createRangeForPositions")
    /\ probe.args.pos1 = Position(2, 1)
    /\ probe.args.pos2 = Position(0, 4)
    /\ Get(probe.result).given = Range(Position(0, 1), Position(2, 4))

(* C17: the range a handler has put on display is the bounding range of    *)
(* the centre of the definition and the centre of the cursor's word, and   *)
(* the line drawn has the colour, width and opacity of the current         *)
(* configuration; for the word (3,2)-(3,5), the definition (10,2)-(10,5)   *)
(* and the default configuration that is the range from line 3 to line 10  *)
(* at column 3 and a vertical line, red, of width 1 and opacity 50.        *)
C17_EndToEnd ==
    \A h \in Handlers :
        (Resolved(h) /\ handlers[h].result = "new-display")
            => LET me    == handlers[h]
                   def   == Get(me.definitionRange)
                   word  == Get(me.cursorWordRange)
                   dc    == Position(def.start.line,
                                     centerOfRange(def.start.character,
                                                   def.end.character))
                   wc    == Position(word.start.line,
                                     centerOfRange(word.start.character,
                                                   word.end.character))
                   rect  == Range(Position(Min(dc.line, wc.line),
                                           Min(dc.character, wc.character)),
                                  Position(Max(dc.line, wc.line),
                                           Max(dc.character, wc.character)))
                   image == Get(decorationTypes[h]).backgroundImage
               IN  /\ Shown(h) = {[ decoration |-> h, uri |-> Get(me.uri),
                                    range |-> rect ]}
                   /\ image.stroke = Get(config).lineColor
                   /\ image.strokeWidth = Get(config).lineWidth
                   /\ image.strokeOpacity = Get(config).lineOpacity
                   /\ ( /\ word = Range(Position(3, 2), Position(3, 5))
                        /\ def = Range(Position(10, 2), Position(10, 5))
                        /\ Get(config) = getConfig(NoSettings) )
                      => /\ rect = Range(Position(3, 3), Position(10, 3))
                         /\ image = [ x1 |-> 50, y1 |-> 0,
                                      x2 |-> 50, y2 |-> 100,
                                      stroke        |-> "red",
                                      strokeWidth   |-> 1,
                                      strokeOpacity |-> 50 ]

(* C18: of two decorations built for different word ranges with the same   *)
(* centre and the same definition, the settings reloaded in between with   *)
(* only lineColor changed, the second differs from the first in the stroke *)
(* colour alone: the range, the width, height and top of the box, the      *)
(* endpoints, the stroke width and the stroke opacity are the same.        *)
C18_ReloadChangesColorOnly ==
    (Computed("reload") /\ Get(probe.result).second # Null)
        => LET one == Get(Get(probe.result).first)
               two == Get(Get(probe.result).second)
           IN  /\ two.range = one.range
               /\ two.css.width = one.css.width
               /\ two.css.height = one.css.height
               /\ two.css.top = one.css.top
               /\ Endpoints(two.css.backgroundImage)
                     = Endpoints(one.css.backgroundImage)
               /\ two.css.backgroundImage.strokeWidth
                     = one.css.backgroundImage.strokeWidth
               /\ two.css.backgroundImage.strokeOpacity
                     = one.css.backgroundImage.strokeOpacity
               /\ [two.css EXCEPT !.backgroundImage.stroke =
                                      one.css.backgroundImage.stroke]
                     = one.css
               /\ one.css.backgroundImage.stroke
                     = getOr(probe.args.before, "lineColor", "red")
               /\ two.css.backgroundImage.stroke
                     = getOr(probe.args.after, "lineColor", "red")
               /\ decorationTypes[1] = Some(one.css)
               /\ decorationTypes[2] = Some(two.css)

C18_Witness ==
    /\ Computed("reload")
    /\ probe.args.first # probe.args.second
    /\ probe.args.before = Customised
    /\ probe.args.after = withLineColor(Customised, Null)
    /\ settings = probe.args.after
    /\ Get(probe.result).second # Null
    /\ Get(Get(probe.result).first).css.backgroundImage.stroke = "blue"
    /\ Get(Get(probe.result).second).css.backgroundImage.stroke = "red"
    /\ Get(Get(probe.result).second).css.backgroundImage.strokeWidth = 2

(* C19: of a single candidate in the editor's document, the range taken is *)
(* targetSelectionRange when the candidate is a location link that has     *)
(* one, targetRange when it is a location link that has none, and range    *)
(* when it is a plain location.                                            *)
C19_PreciseRangePreferred ==
    ( /\ Computed("getDefinitionRange")
      /\ Len(probe.args.locations) = 1
      /\ targetOf(probe.args.locations[1]) = probe.args.uri )
        => LET l     == probe.args.locations[1]
               taken == Get(probe.result)
           IN  /\ (l.targetUri # Null /\ l.targetSelectionRange # Null)
                     => taken = l.targetSelectionRange
               /\ (l.targetUri # Null /\ l.targetSelectionRange = Null)
                     => taken = l.targetRange
               /\ l.targetUri = Null => taken = l.range

C19_Witness ==
    /\ Computed("getDefinitionRange")
    /\ probe.args.uri = DocA
    /\ probe.args.locations
          = << LocationLink(DocA, Range(Position(1, 0), Position(2, 5)),
                            Some(Range(Position(1, 2), Position(1, 3)))) >>
    /\ Get(probe.result) = Some(Range(Position(1, 2), Position(1, 3)))

(* C20: without a font size calcLineHeight throws, and where it threw      *)
(* activate has registered neither listener and assigned no configuration: *)
(* no cursor event is ever handled and no decoration type ever created.    *)
C20_NoActivationWithoutFontSize ==
    /\ \A platform \in Platforms : calcLineHeight(platform, Null) = Null
    /\ lineHeight = Null
          => /\ subscriptions = {}
             /\ config = Null
             /\ issued = 0
             /\ lastEvent = NoEvent
             /\ lastCommit = NoCommit
             /\ lastDecoration = Null
             /\ editorDecorations = {}
             /\ \A h \in Handlers :
                    handlers[h] = IdleHandler /\ NeverCreated(h)

C20_Witness ==
    /\ lineHeight = Null
    /\ subscriptions = {}
    /\ settings = Customised
    /\ config = Null
    /\ issued = 0

(* C21: a cursor event decides keep-last-display exactly when, as it is    *)
(* evaluated, a decoration is stored whose anchor word range equals the    *)
(* word range under the cursor; its handler then issues no lookup and      *)
(* creates no decoration type, and once it has finished the decoration     *)
(* that was stored is still stored, undisposed and on display.             *)
C21_KeepCurrentShortCircuit ==
    /\ issued > 0
          => /\ (lastEvent.decision = "keep-last-display")
                    <=> lastEvent.anchored
             /\ lastEvent.decision = "keep-last-display"
                    => ~lastEvent.lookedUp
    /\ \A h \in Handlers :
          (Resolved(h) /\ handlers[h].result = "keep-last-display")
              => /\ ~handlers[h].lookedUp
                 /\ handlers[h].response = Null
                 /\ NeverCreated(h)
                 /\ Shown(h) = {}
    /\ lastCommit.result = "keep-last-display"
          => /\ ~lastCommit.lookedUp
             /\ NeverCreated(lastCommit.h)
             /\ Shown(lastCommit.h) = {}
             /\ lastCommit.before # Null
             /\ lastDecoration = lastCommit.before
             /\ disposals[Get(lastDecoration).decoration] = 0
             /\ Get(lastDecoration).decoration \in LiveDecorations
             /\ Shown(Get(lastDecoration).decoration) # {}

C21_Witness ==
    /\ lastCommit.result = "keep-last-display"
    /\ lastCommit.h = issued
    /\ lastEvent.anchored
    /\ lastDecoration # Null
    /\ lastDecoration = lastCommit.before
    /\ Get(lastDecoration).cursorWordRange = Get(lastCommit.cursorWordRange)

(* C22: for a definition centre and a cursor centre on different lines and *)
(* in different columns, the two endpoints of the line drawn are the       *)
(* corners of the decorated range at which the two centres lie, the        *)
(* definition above the cursor or below it.                                *)
C22_LineConnectsCenters ==
    Computed("getDisplayDecoration")
        => LET dc    == Position(probe.args.definitionRange.start.line,
                           centerOfRange(
                               probe.args.definitionRange.start.character,
                               probe.args.definitionRange.end.character))
               wc    == Position(probe.args.cursorWordRange.start.line,
                           centerOfRange(
                               probe.args.cursorWordRange.start.character,
                               probe.args.cursorWordRange.end.character))
               rect  == Get(probe.result).range
               image == Get(probe.result).css.backgroundImage
               column(x) == IF x = 0 THEN rect.start.character
                            ELSE rect.end.character
               line(y)   == IF y = 0 THEN rect.start.line
                            ELSE rect.end.line
           IN  (dc.line # wc.line /\ dc.character # wc.character)
                  => { Position(line(image.y1), column(image.x1)),
                       Position(line(image.y2), column(image.x2)) }
                        = {dc, wc}

(* C23: when every handler has finished, a stored decoration is anchored   *)
(* at the word range under the cursor at the latest cursor event, and      *)
(* nothing is stored when the latest event came to none.                   *)
C23_QuiescentMatchesLatestEvent ==
    (Quiescent /\ issued > 0)
        => /\ lastDecoration # Null
                => Some(Get(lastDecoration).cursorWordRange) = lastEvent.word
           /\ lastEvent.decision = "none" => lastDecoration = Null
           /\ (lastCommit.h = issued /\ lastCommit.result = "none")
                => lastDecoration = Null

(* C24: whatever the order in which the handlers run, no decoration type   *)
(* is disposed more than once, and the decoration stored in lastDecoration *)
(* has not been disposed.                                                  *)
C24_NoUseAfterRelease ==
    /\ \A id \in Handlers : disposals[id] <= 1
    /\ lastDecoration # Null
          => /\ disposals[Get(lastDecoration).decoration] = 0
             /\ Get(lastDecoration).decoration \in LiveDecorations

C24_Witness ==
    /\ lastCommit.stale
    /\ lastCommit.result = "new-display"
    /\ lastCommit.before # Null
    /\ disposals[Get(lastCommit.before).decoration] = 1
    /\ lastDecoration # Null
    /\ Get(lastDecoration).decoration = lastCommit.h
    /\ disposals[lastCommit.h] = 0

====
